---- MODULE Spec2Model ----
(***************************************************************************)
(* A model of the disk-backed B+ tree of HiemalBeryl/BPlusTree:            *)
(*   src/utils.py   find_last_leq                                          *)
(*   src/node.py    Node (page object, serialize)                          *)
(*   src/memory.py  Memorymanagement (LRU cache, page file, metadata)      *)
(*   src/main.py    BPlusTree (create, close, get, insert, delete)         *)
(*                                                                         *)
(* Python objects live in a heap (a sequence of node records); the cache   *)
(* and the tree's root_node hold references (heap indices), so a mutation  *)
(* made through one reference is seen through every other one, as in the   *)
(* program.  The page file is modelled byte by byte.  Byte strings are     *)
(* kept run-length encoded: a string is a sequence of runs <<b, n>>, n     *)
(* copies of byte b, with no empty run and no two adjacent runs of the     *)
(* same byte.                                                              *)
(***************************************************************************)
EXTENDS Integers, Sequences, FiniteSets, TLC

(***************************************************************************)
(* Program constants.                                                      *)
(***************************************************************************)
\* Node.page_max_size
page_max_size == 4096
\* Node.default_merge_size = 2048 - 32
default_merge_size == 2048 - 32
\* struct format "=QQQQIQ": 5 * 8 + 4 bytes of page header
HeaderSize == 44
\* Python's None, for page_parent / page_prev / page_next and return values
None == 0 - 1
\* a decoded 8-byte field that does not fit 32 bits is kept as one of 1000
\* numbers from Large on when a page with that id would start below file offset
\* 2^63, and as one of 1000 numbers from Huge on when it would not
Huge == 2147483647 - 1000
Large == Huge - 1000

\* a value computed once and named: F is what is done with it
Bind(v, F(_)) == F(v)

(***************************************************************************)
(* Run-length encoded byte strings.  An operator that goes through the     *)
(* runs of a string halves the range it works on, so that a page of a few  *)
(* thousand runs is handled in a few nested steps.                         *)
(***************************************************************************)
\* the bytes in runs lo..hi of s
RECURSIVE BLenIn(_, _, _)
BLenIn(s, lo, hi) ==
    IF lo > hi THEN 0
    ELSE IF lo = hi THEN s[lo][2]
    ELSE BLenIn(s, lo, (lo + hi) \div 2) + BLenIn(s, (lo + hi) \div 2 + 1, hi)

BLen(s) == BLenIn(s, 1, Len(s))

\* <<c, r>>: with n bytes to pass from the start of run lo, c whole runs of
\* lo..hi are passed and r bytes are left to pass
RECURSIVE Locate(_, _, _, _)
Locate(s, lo, hi, n) ==
    IF lo > hi THEN <<0, n>>
    ELSE IF lo = hi THEN (IF s[lo][2] <= n THEN <<1, n - s[lo][2]>> ELSE <<0, n>>)
    ELSE Bind(Locate(s, lo, (lo + hi) \div 2, n), LAMBDA left :
         IF left[1] < (lo + hi) \div 2 - lo + 1 THEN left
         ELSE Bind(Locate(s, (lo + hi) \div 2 + 1, hi, left[2]), LAMBDA right :
              <<left[1] + right[1], right[2]>>))

BCat(a, b) ==
    IF a = <<>> THEN b
    ELSE IF b = <<>> THEN a
    ELSE IF a[Len(a)][1] = b[1][1]
         THEN SubSeq(a, 1, Len(a) - 1)
                \o << <<b[1][1], a[Len(a)][2] + b[1][2]>> >>
                \o Tail(b)
         ELSE a \o b

Rep(b, n) == IF n <= 0 THEN <<>> ELSE << <<b, n>> >>

\* the first n bytes of s (all of s when it is shorter), like s[:n]
BTake(s, n) ==
    IF n <= 0 THEN <<>>
    ELSE Bind(Locate(s, 1, Len(s), n), LAMBDA loc :
         IF loc[2] = 0 \/ loc[1] = Len(s) THEN SubSeq(s, 1, loc[1])
         ELSE Append(SubSeq(s, 1, loc[1]), <<s[loc[1] + 1][1], loc[2]>>))

\* s without its first n bytes, like s[n:]
BDrop(s, n) ==
    IF n <= 0 THEN s
    ELSE Bind(Locate(s, 1, Len(s), n), LAMBDA loc :
         IF loc[1] = Len(s) THEN <<>>
         ELSE IF loc[2] = 0 THEN SubSeq(s, loc[1] + 1, Len(s))
         ELSE << <<s[loc[1] + 1][1], s[loc[1] + 1][2] - loc[2]>> >>
                \o SubSeq(s, loc[1] + 2, Len(s)))

\* bytes [from, from + n) of s (fewer when s is shorter), like s[from:from+n]
BSlice(s, from, n) == BTake(BDrop(s, from), n)

\* the byte at 0-based position i of s (i < BLen(s))
RECURSIVE BByte(_, _)
BByte(s, i) == IF i < s[1][2] THEN s[1][1] ELSE BByte(Tail(s), i - s[1][2])

\* struct.pack of a non-negative integer v in w bytes, little-endian
RECURSIVE PackInt(_, _)
PackInt(v, w) ==
    IF w = 0 THEN <<>>
    ELSE BCat(<< <<v % 256, 1>> >>, PackInt(v \div 256, w - 1))

\* struct.unpack of the 4 bytes of s as an integer (every byte below 128)
UnpackInt4(s) ==
    BByte(s, 0) + 256 * BByte(s, 1) + 65536 * BByte(s, 2) + 16777216 * BByte(s, 3)

\* which of the 1000 numbers stands for the 8 bytes of s
Fold8(s) ==
    (BByte(s, 0) + 2 * BByte(s, 1) + 3 * BByte(s, 2) + 4 * BByte(s, 3)
     + 5 * BByte(s, 4) + 6 * BByte(s, 5) + 7 * BByte(s, 6) + 8 * BByte(s, 7)) % 1000

\* struct.unpack of the 8 bytes of s ("Q"): Large stands for the integers from
\* 2^32 on whose page would still start at a file offset below 2^63, Huge for
\* the ones beyond
UnpackInt8(s) ==
    IF BDrop(s, 4) = << <<0, 4>> >> THEN UnpackInt4(s)
    ELSE IF BByte(s, 7) = 0 /\ BByte(s, 6) < 8 THEN Large + Fold8(s)
    ELSE Huge + Fold8(s)

\* str(n).encode() for n >= 0
RECURSIVE Decimal(_)
Decimal(n) ==
    IF n < 10 THEN << <<48 + n, 1>> >>
    ELSE BCat(Decimal(n \div 10), << <<48 + (n % 10), 1>> >>)

IsDigit(b) == b >= 48 /\ b <= 57
\* the bytes int() strips as white space
IsSpace(b) == b \in {9, 10, 11, 12, 13, 28, 29, 30, 31, 32}

\* runs lo..hi of s as the plain list of their bytes
RECURSIVE ExpandIn(_, _, _)
ExpandIn(s, lo, hi) ==
    IF lo > hi THEN <<>>
    ELSE IF lo = hi THEN [j \in 1..s[lo][2] |-> s[lo][1]]
    ELSE ExpandIn(s, lo, (lo + hi) \div 2) \o ExpandIn(s, (lo + hi) \div 2 + 1, hi)

\* s as the plain list of its bytes
Expand(s) == ExpandIn(s, 1, Len(s))

RECURSIVE DigitsValue(_, _)
DigitsValue(ds, acc) ==
    IF ds = <<>> THEN acc
    ELSE IF acc > 99999999 THEN Huge
    ELSE DigitsValue(Tail(ds), 10 * acc + (ds[1] - 48))

RECURSIVE StripLeft(_)
StripLeft(bs) == IF bs # <<>> /\ IsSpace(bs[1]) THEN StripLeft(Tail(bs)) ELSE bs
RECURSIVE StripRight(_)
StripRight(bs) ==
    IF bs # <<>> /\ IsSpace(bs[Len(bs)])
    THEN StripRight(SubSeq(bs, 1, Len(bs) - 1)) ELSE bs

\* int(text): the value, or None when int() raises ValueError.  Signs and
\* underscores never occur in the bytes a page can hold here (letters, digits,
\* small binary integers), so a string parses iff it is digits inside white space.
ParseInt(s) ==
    IF BLen(s) > 12 THEN None
    ELSE LET bs == StripRight(StripLeft(Expand(s)))
         IN IF bs = <<>> \/ \E i \in 1..Len(bs) : ~IsDigit(bs[i]) THEN None
            ELSE DigitsValue(bs, 0)

(***************************************************************************)
(* Values and results.  A Python value that is an int or a str is a tagged *)
(* record, so that the two kinds can sit in one list: node.values holds    *)
(* page ids (int) in an internal node and payloads (str) in a leaf.        *)
(***************************************************************************)
IntV(n) == [t |-> "i", n |-> n, s |-> <<>>]
StrV(s) == [t |-> "s", n |-> 0, s |-> s]
NoneV == [t |-> "None", n |-> 0, s |-> <<>>]
TrueV == [t |-> "True", n |-> 0, s |-> <<>>]
FalseV == [t |-> "False", n |-> 0, s |-> <<>>]

\* seq[i] with Python's indexing (i counts from 0, negative i from the end)
PyInRange(seq, i) == i < Len(seq) /\ i >= 0 - Len(seq)
PyAt(seq, i) == IF i >= 0 THEN seq[i + 1] ELSE seq[Len(seq) + i + 1]
\* list.insert(i, x) for i >= 0
PyInsert(seq, i, x) ==
    IF i >= Len(seq) THEN Append(seq, x)
    ELSE SubSeq(seq, 1, i) \o <<x>> \o SubSeq(seq, i + 1, Len(seq))
\* list.pop(i) leaves this list (i in range)
PyRemove(seq, i) ==
    LET j == IF i >= 0 THEN i + 1 ELSE Len(seq) + i + 1
    IN SubSeq(seq, 1, j - 1) \o SubSeq(seq, j + 1, Len(seq))
PySet(seq, i, x) ==
    LET j == IF i >= 0 THEN i + 1 ELSE Len(seq) + i + 1
    IN [seq EXCEPT ![j] = x]

(***************************************************************************)
(* src/utils.py: find_last_leq, the binary search as written (it is also   *)
(* run on lists that are not sorted).                                      *)
(***************************************************************************)
RECURSIVE find_last_leq_loop(_, _, _, _, _)
find_last_leq_loop(arr, target, left, right, last_leq_index) ==
    IF left > right THEN last_leq_index
    ELSE LET mid == (left + right) \div 2
         IN IF arr[mid + 1] <= target
            THEN find_last_leq_loop(arr, target, mid + 1, right, mid)
            ELSE find_last_leq_loop(arr, target, left, mid - 1, last_leq_index)

find_last_leq(arr, target) ==
    find_last_leq_loop(arr, target, 0, Len(arr) - 1, -1)

(***************************************************************************)
(* src/node.py: the page object and its codec.                             *)
(***************************************************************************)
\* Node.__init__ (is_changed starts False; page_offset from Node.page_count)
NewNode(page_offset, page_parent, is_leaf) ==
    [page_offset |-> page_offset, page_parent |-> page_parent,
     page_prev |-> None, page_next |-> None,
     keys |-> <<>>, values |-> <<>>,
     is_leaf |-> is_leaf, is_changed |-> FALSE]

OrZero(x) == IF x = None THEN 0 ELSE x

ValueBytes(v) == IF v.t = "i" THEN Decimal(v.n) ELSE v.s

\* "i" * len(keys): keys lo..hi, 4 bytes each
RECURSIVE PackKeysIn(_, _, _)
PackKeysIn(keys, lo, hi) ==
    IF lo > hi THEN <<>>
    ELSE IF lo = hi THEN PackInt(keys[lo], 4)
    ELSE BCat(PackKeysIn(keys, lo, (lo + hi) \div 2),
              PackKeysIn(keys, (lo + hi) \div 2 + 1, hi))

PackKeys(keys) == PackKeysIn(keys, 1, Len(keys))

\* values lo..hi, every one followed by one pad byte
RECURSIVE PackValuesIn(_, _, _)
PackValuesIn(values, lo, hi) ==
    IF lo > hi THEN <<>>
    ELSE IF lo = hi THEN BCat(ValueBytes(values[lo]), Rep(0, 1))
    ELSE BCat(PackValuesIn(values, lo, (lo + hi) \div 2),
              PackValuesIn(values, (lo + hi) \div 2 + 1, hi))

\* the first n values, every one followed by one pad byte
PackValues(values, n) == PackValuesIn(values, 1, n)

\* serialize() raises IndexError when values is shorter than keys
SerializeRaises(nd) == Len(nd.values) < Len(nd.keys)

serialize(nd) ==
    BCat(BCat(BCat(BCat(BCat(BCat(
        PackInt(nd.page_offset, 8),
        PackInt(OrZero(nd.page_parent), 8)),
        PackInt(OrZero(nd.page_prev), 8)),
        PackInt(OrZero(nd.page_next), 8)),
        PackInt(IF nd.is_leaf THEN 1 ELSE 0, 4)),
        PackInt(Len(nd.keys), 8)),
        BCat(PackKeys(nd.keys),
             IF Len(nd.keys) = 0 THEN Rep(0, 1)
             ELSE PackValues(nd.values, Len(nd.keys))))

\* len(node.serialize())
NodeSize(nd) == BLen(serialize(nd))

\* the positions of the runs of zero bytes among runs lo..hi, ascending
RECURSIVE ZeroRuns(_, _, _)
ZeroRuns(runs, lo, hi) ==
    IF lo > hi THEN <<>>
    ELSE IF lo = hi THEN (IF runs[lo][1] = 0 THEN <<lo>> ELSE <<>>)
    ELSE ZeroRuns(runs, lo, (lo + hi) \div 2) \o ZeroRuns(runs, (lo + hi) \div 2 + 1, hi)

\* the field that ends at the j-th run of zero bytes
FieldBefore(runs, zs, j) ==
    SubSeq(runs, IF j = 1 THEN 1 ELSE zs[j - 1] + 1, zs[j] - 1)

\* raw_data.split(b"\x00"), keeping the fields before the first empty one: the
\* first field is empty when the data starts with a zero byte, and an empty
\* field follows the first of two zero bytes in a row
Segments(runs) ==
    Bind(ZeroRuns(runs, 1, Len(runs)), LAMBDA zs :
    Bind({j \in 1..Len(zs) : zs[j] = 1 \/ runs[zs[j]][2] >= 2}, LAMBDA ends :
    IF ends = {}
    THEN [j \in 1..Len(zs) |-> FieldBefore(runs, zs, j)]
         \o (IF zs = <<>> /\ runs # <<>> THEN <<runs>>
             ELSE IF zs # <<>> /\ zs[Len(zs)] < Len(runs)
             THEN << SubSeq(runs, zs[Len(zs)] + 1, Len(runs)) >>
             ELSE <<>>)
    ELSE Bind(CHOOSE j \in ends : \A i \in ends : j <= i, LAMBDA e :
         IF zs[e] = 1 THEN <<>>
         ELSE [j \in 1..e |-> FieldBefore(runs, zs, j)])))

(***************************************************************************)
(* The machine: everything an operation reads or writes.  Every method of  *)
(* the program is an operator from a machine to a machine; a raised        *)
(* exception is the field exc (its class name, "" when none), obj is the   *)
(* object a helper returns and ret the value a tree operation returns.     *)
(*   heap        the live Node objects                                     *)
(*   cache       Memorymanagement.cache, LRU first: <<page id, object>>    *)
(*   file        the file from offset 16384 on: its page slots             *)
(*   meta        the metadata record at offset 0                           *)
(*   page_count  Node.page_count (a class attribute: one per process)      *)
(* splits, merges and moves count what the operation has done so far: the  *)
(* calls of __split_node that returned, the calls of __coalesce that moved *)
(* the records of one node into the other and took its entry out of the    *)
(* parent, and the calls of __redistribute that moved a record; co notes   *)
(* what the latest of these calls of __coalesce did, cr the siblings that   *)
(* delete's call of __coalesce_or_redistribute met and the one it used,    *)
(* rd what its call of __redistribute did, alloc the page ids the splits   *)
(* of the operation gave to their new nodes, drops the pages the cache let *)
(* go of during the operation, evicts the pages put_page popped during the *)
(* operation, puts the number of pages put_page has added during it, and   *)
(* used the ids of the cached pages in the order of their last access      *)
(* (a hit of get_page or a put_page), the oldest first, raised the errors  *)
(* that calls of get_page raised during the operation.                     *)
(***************************************************************************)
Raise(m, e) == [m EXCEPT !.exc = e]
Ok(m) == m.exc = ""

\* the statements F that follow a call: skipped when the call raised
Try(m, F(_)) == IF Ok(m) THEN F(m) ELSE m

\* The page region of the file (from byte 16384 on) as its page_max_size-byte
\* slots: every slot but the last holds exactly page_max_size bytes, the last
\* one ends where the file ends.
PadSlot(slot) == BCat(slot, Rep(0, page_max_size - BLen(slot)))

\* the file grown with zero bytes (a seek past its end) so that slot k - 1 is full
GrowTo(file, k) ==
    IF Len(file) >= k - 1
    THEN (IF Len(file) = k - 1 /\ k > 1
          THEN [file EXCEPT ![k - 1] = PadSlot(@)] ELSE file)
    ELSE [i \in 1..(k - 1) |->
            IF i < Len(file) THEN file[i]
            ELSE IF i = Len(file) THEN PadSlot(file[i])
            ELSE Rep(0, page_max_size)]

\* file.seek(start of slot k); file.write(data): data runs on into the next
\* slots when it is longer than a page
RECURSIVE FileWrite(_, _, _)
FileWrite(file, k, data) ==
    IF data = <<>> THEN file
    ELSE Bind(GrowTo(file, k), LAMBDA f1 :
         Bind(BTake(data, page_max_size), LAMBDA chunk :
         Bind(BCat(chunk, BDrop(IF k <= Len(f1) THEN f1[k] ELSE <<>>, BLen(chunk))),
              LAMBDA slot :
         FileWrite(IF k <= Len(f1) THEN [f1 EXCEPT ![k] = slot] ELSE Append(f1, slot),
                   k + 1, BDrop(data, page_max_size)))))

\* the most pages of a file of the model
FileLimit == 600

\* Memorymanagement.write_to_disk
write_to_disk(m, o) ==
    LET nd == m.heap[o]
    IN IF SerializeRaises(nd) THEN Raise(m, "IndexError")
       \* file.seek refuses an offset that does not fit 63 bits
       ELSE IF nd.page_offset >= Huge THEN Raise(m, "ValueError")
       ELSE IF nd.page_offset > FileLimit THEN Raise(m, "OSError")
       \* page_offset 0 starts one page before the region, inside the metadata
       ELSE IF nd.page_offset = 0
       THEN [m EXCEPT !.file = FileWrite(m.file, 1, BDrop(serialize(nd), page_max_size))]
       ELSE [m EXCEPT !.file = FileWrite(m.file, nd.page_offset, serialize(nd))]

\* the n bytes of the file from the start of slot k on
RECURSIVE FileRead(_, _, _)
FileRead(file, k, n) ==
    IF n <= 0 \/ k > Len(file) THEN <<>>
    ELSE BCat(BTake(file[k], n), FileRead(file, k + 1, n - page_max_size))

\* the file holds node nd as it is now, from the start of its slot on
SameAsDisk(f, nd) ==
    /\ ~SerializeRaises(nd)
    /\ nd.page_offset \in 1..Len(f)
    /\ FileRead(f, nd.page_offset, NodeSize(nd)) = serialize(nd)

\* the cache has let go of node nd, by evicting it or in clear: noted with its
\* dirty flag and with whether file f holds its contents
Dropped(m, how, nd, f) ==
    [m EXCEPT !.drops = Append(@, [how |-> how, id |-> nd.page_offset,
                                   dirty |-> nd.is_changed,
                                   saved |-> SameAsDisk(f, nd)])]

CacheIndex(cache, pid) ==
    IF \E i \in 1..Len(cache) : cache[i][1] = pid
    THEN CHOOSE i \in 1..Len(cache) : cache[i][1] = pid
    ELSE 0

\* A cache that keeps its order on an access: no move_to_end, the order is
\* the order in which the pages came in (first in, first out).
Unmoved(cache, i) == cache

\* OrderedDict.move_to_end
MoveToEnd(cache, i) ==
    SubSeq(cache, 1, i - 1) \o SubSeq(cache, i + 1, Len(cache)) \o <<cache[i]>>

\* the sequence without its entries equal to x
Without(seq, x) == SelectSeq(seq, LAMBDA y : y # x)

\* page id pid is accessed, by a hit of get_page or by put_page: it becomes the
\* latest of the page ids in the order of their last access
Touched(m, pid) == [m EXCEPT !.used = Append(Without(@, pid), pid)]

\* put_page pops page id pid for the page it is about to add: noted with the
\* page id whose last access is the oldest and with the number of the put
Evicted(m, pid) ==
    [m EXCEPT !.evicts = Append(@, [id |-> pid, put |-> m.puts,
                                    oldest |-> IF m.used = <<>> THEN None
                                               ELSE m.used[1]]),
              !.used = Without(@, pid)]

\* A cache without a capacity: put_page never finds it full.
NeverFull(m) == FALSE

\* put_page finds no room for a new page
Full(m) == Len(m.cache) >= m.capacity

\* Memorymanagement.put_page
put_page(m, pid, o) ==
    LET i == CacheIndex(m.cache, pid)
    IN IF i # 0
       THEN Touched([m EXCEPT !.cache = MoveToEnd([m.cache EXCEPT ![i] = <<pid, o>>], i)],
                    pid)
       ELSE IF Full(m)
       THEN IF m.cache = <<>> THEN Raise(m, "KeyError")
            ELSE \* evict_least_recently_used: popitem(last=False)
                 Bind(Evicted([m EXCEPT !.cache = Tail(@), !.puts = @ + 1],
                              m.cache[1][1]), LAMBDA m0 :
                 Try(IF m.heap[m.cache[1][2]].is_changed
                     THEN write_to_disk(m0, m.cache[1][2])
                     ELSE m0,
                     LAMBDA m2 :
                     Bind([Dropped(m2, "evict", m.heap[m.cache[1][2]], m2.file)
                              EXCEPT !.cache = Append(m2.cache, <<pid, o>>)],
                          LAMBDA m3 : Touched(m3, pid))))
       ELSE Touched([m EXCEPT !.cache = Append(m.cache, <<pid, o>>), !.puts = @ + 1],
                    pid)

\* the keys of a page: records_size 4-byte integers after the header
UnpackKeys(raw, n) ==
    Bind(Expand(BSlice(raw, HeaderSize, 4 * n)), LAMBDA bs :
        [i \in 1..n |-> bs[4 * i - 3] + 256 * bs[4 * i - 2]
                         + 65536 * bs[4 * i - 1] + 16777216 * bs[4 * i]])

\* Memorymanagement.read_from_disk; page_id is a tagged value (an int, or a str
\* when a leaf payload is used as a page id)
read_from_disk(m, page_id) ==
    IF page_id.t = "s"
    THEN (IF ParseInt(page_id.s) = None \/ ParseInt(page_id.s) <= 0
          THEN Raise(m, "ValueError") ELSE Raise(m, "TypeError"))
    ELSE IF page_id.n <= 0 THEN Raise(m, "ValueError")
    ELSE
    LET raw_data == IF page_id.n > Len(m.file) THEN <<>> ELSE m.file[page_id.n]
    IN IF BLen(raw_data) < HeaderSize THEN Raise(m, "ValueError")
       ELSE
       LET page_offset == UnpackInt8(BSlice(raw_data, 0, 8))
           page_parent == UnpackInt8(BSlice(raw_data, 8, 8))
           page_prev == UnpackInt8(BSlice(raw_data, 16, 8))
           page_next == UnpackInt8(BSlice(raw_data, 24, 8))
           is_leaf == BSlice(raw_data, 32, 4) # Rep(0, 4)
           records_size == UnpackInt8(BSlice(raw_data, 36, 8))
       IN \* "i" * records_size cannot be built for a count that fills 8 bytes
          IF records_size >= Large THEN Raise(m, "MemoryError")
          ELSE IF records_size > page_max_size
                  \/ 4 * records_size > BLen(raw_data) - HeaderSize
          THEN Raise(m, "ValueError")
          ELSE
          Bind(Segments(BDrop(raw_data, HeaderSize + 4 * records_size)),
               LAMBDA segs :
          LET keys == UnpackKeys(raw_data, records_size)
              \* LeafNode(...) / Node(...) has run: Node.page_count is up by one
              m1 == [m EXCEPT !.page_count = @ + 1]
          IN IF ~is_leaf /\ \E i \in 1..Len(segs) : ParseInt(segs[i]) = None
             THEN Raise(m1, "ValueError")
             ELSE
             [m1 EXCEPT !.heap = Append(@,
                            [page_offset |-> page_offset, page_parent |-> page_parent,
                             page_prev |-> page_prev, page_next |-> page_next,
                             keys |-> keys,
                             values |-> [i \in 1..Len(segs) |->
                                           IF is_leaf THEN StrV(segs[i])
                                           ELSE IntV(ParseInt(segs[i]))],
                             is_leaf |-> is_leaf, is_changed |-> FALSE]),
                        !.obj = Len(m1.heap) + 1])

\* get_page(page_id) has left machine m: when it raised, the error is noted,
\* with whether the cache holds the page id now
Failed(m, page_id) ==
    IF Ok(m) THEN m
    ELSE [m EXCEPT !.raised = Append(@, [exc |-> m.exc,
                                         cached |-> /\ page_id.t = "i"
                                                    /\ CacheIndex(m.cache, page_id.n) # 0])]

\* Memorymanagement.get_page
get_page(m, page_id) ==
    LET i == IF page_id.t = "i" THEN CacheIndex(m.cache, page_id.n) ELSE 0
    IN IF i # 0
       THEN Touched([m EXCEPT !.cache = MoveToEnd(m.cache, i), !.obj = m.cache[i][2]],
                    page_id.n)
       ELSE Bind(Try(read_from_disk(m, page_id),
                     LAMBDA m1 : [put_page(m1, page_id.n, m1.obj) EXCEPT !.obj = m1.obj]),
                 LAMBDA m2 : Failed(m2, page_id))

\* Memorymanagement.clear
RECURSIVE clear_loop(_, _)
clear_loop(m, i) ==
    IF i > Len(m.cache) THEN m
    ELSE Try(IF m.heap[m.cache[i][2]].is_changed
             THEN write_to_disk(m, m.cache[i][2]) ELSE m,
             LAMBDA m1 : clear_loop(m1, i + 1))

\* the pages of cache, from the i-th on, are let go of with file f written
RECURSIVE DroppedAll(_, _, _, _)
DroppedAll(m, cache, i, f) ==
    IF i > Len(cache) THEN m
    ELSE DroppedAll(Dropped(m, "clear", m.heap[cache[i][2]], f), cache, i + 1, f)

clear(m) ==
    Try(clear_loop(m, 1), LAMBDA m1 :
        [DroppedAll(m1, m1.cache, 1, m1.file) EXCEPT !.cache = <<>>, !.used = <<>>])

(***************************************************************************)
(* Bounds of the model.                                                    *)
(***************************************************************************)
\* the steps one descent or one upward pass may take before the operation
\* is taken to loop for ever
MaxSteps == 6
\* the calls of __coalesce that may nest before the recursion is taken to end
\* in RecursionError
MaxRecursion == 12

(***************************************************************************)
(* src/main.py: BPlusTree.                                                 *)
(***************************************************************************)
SetNode(m, o, nd) == [m EXCEPT !.heap[o] = nd]
IntsOf(values) == [i \in 1..Len(values) |-> values[i].n]
AllInts(values) == \A i \in 1..Len(values) : values[i].t = "i"

\* BPlusTree.get
RECURSIVE get_loop(_, _, _, _)
get_loop(m, node, key, fuel) ==
    LET nd == m.heap[node]
        index == find_last_leq(nd.keys, key)
    IN IF nd.is_leaf
       THEN IF ~PyInRange(nd.keys, index) THEN Raise(m, "IndexError")
            ELSE IF PyAt(nd.keys, index) = key
            THEN (IF ~PyInRange(nd.values, index) THEN Raise(m, "IndexError")
                  ELSE [m EXCEPT !.ret = PyAt(nd.values, index)])
            ELSE [m EXCEPT !.ret = NoneV]
       ELSE IF ~PyInRange(nd.values, index) THEN Raise(m, "IndexError")
            ELSE Try(get_page(m, PyAt(nd.values, index)), LAMBDA m1 :
                     IF fuel = 0 THEN Raise(m1, "Hang")
                     ELSE get_loop(m1, m1.obj, key, fuel - 1))

get(m, key) == get_loop(m, m.root_node, key, MaxSteps)

\* BPlusTree.__split_node from "right.keys = ..." on, on the heap h: node is
\* split at mid into node and right, under the parent top
split_halves(h, node, right, top, mid) ==
    [h EXCEPT ![right] =
        [@ EXCEPT !.keys = SubSeq(h[node].keys, mid + 1, Len(h[node].keys)),
                  !.values = SubSeq(h[node].values, mid + 1, Len(h[node].values)),
                  !.page_prev = h[node].page_offset,
                  !.page_next = h[node].page_next,
                  !.page_parent = h[top].page_offset]]

\* the node that page id names in machine m (the cached object, else the page
\* read from the file), as a sequence of one node, or <<>> when there is none
Peek(m, id) ==
    IF id = None THEN <<>>
    ELSE IF CacheIndex(m.cache, id) # 0
    THEN << m.heap[m.cache[CacheIndex(m.cache, id)][2]] >>
    ELSE Bind(read_from_disk(m, IntV(id)), LAMBDA m1 :
              IF Ok(m1) THEN << m1.heap[m1.obj] >> ELSE <<>>)

\* the ids of the pages of the tree of machine m at and below node nd, as a
\* descent would find them
RECURSIVE IdsBelow(_, _, _)
IdsBelow(m, nd, depth) ==
    {nd.page_offset} \cup
    (IF nd.is_leaf \/ depth = 0 THEN {}
     ELSE UNION { IdsBelow(m, Peek(m, nd.values[i].n)[1], depth - 1) :
                  i \in { n \in 1..Len(nd.values) :
                             nd.values[n].t = "i" /\ Peek(m, nd.values[n].n) # <<>> } })

\* Node.__init__ without page_offset: the id the new node of a split gets is
\* noted with whether a page of the tree has that id already
Allocated(m, id) ==
    [m EXCEPT !.alloc = Append(@, [id |-> id,
                                   taken |-> id \in IdsBelow(m, m.heap[m.root_node],
                                                             MaxSteps)])]

\* top.keys.insert / top.values.insert of the right half's first key
split_top(h, node, right, top) ==
    IF Len(h[top].keys) > 0
    THEN LET index == find_last_leq(h[top].keys, h[right].keys[1])
         IN [h EXCEPT ![top] =
               [@ EXCEPT !.keys = PyInsert(@, index + 1, h[right].keys[1]),
                         !.values = PyInsert(@, index + 1, IntV(h[right].page_offset))]]
    ELSE [h EXCEPT ![top] =
               [@ EXCEPT !.keys = <<h[node].keys[1], h[right].keys[1]>>,
                         !.values = <<IntV(h[node].page_offset),
                                      IntV(h[right].page_offset)>>]]

\* node keeps the left half and points at right; all three are dirty
split_left(h, node, right, top, mid) ==
    [h EXCEPT ![node] =
        [@ EXCEPT !.keys = SubSeq(h[node].keys, 1, mid),
                  !.values = SubSeq(h[node].values, 1,
                                IF mid < Len(h[node].values) THEN mid
                                ELSE Len(h[node].values)),
                  !.page_parent = h[top].page_offset,
                  !.page_next = h[right].page_offset,
                  !.is_changed = TRUE],
              ![top].is_changed = TRUE,
              ![right].is_changed = TRUE]

\* the parent of the split: a new root when node is the root, else get_page
split_parent(m, node) ==
    IF m.heap[node].page_offset = m.root_page_id
    THEN [Allocated(m, m.page_count + 1)
               EXCEPT !.page_count = @ + 1,
                      !.heap = Append(@, NewNode(m.page_count + 1, None, FALSE)),
                      !.node_count = @ + 1,
                      !.obj = Len(m.heap) + 1]
    ELSE get_page(m, IntV(m.heap[node].page_parent))

\* BPlusTree.__split_node; the result carries the three objects in p, l, r
split_node(m, node) ==
    \* right = LeafNode(is_leaf=True) / Node()
    Try(split_parent([Allocated(m, m.page_count + 1)
                         EXCEPT !.page_count = @ + 1,
                                !.heap = Append(@, NewNode(m.page_count + 1, None,
                                                           m.heap[node].is_leaf)),
                                !.node_count = @ + 1],
                     node),
        LAMBDA m2 :
        Bind(split_halves(m2.heap, node, Len(m.heap) + 1, m2.obj,
                          Len(m2.heap[node].keys) \div 2),
             LAMBDA h1 :
             IF Len(h1[Len(m.heap) + 1].keys) = 0
                \/ (Len(h1[m2.obj].keys) = 0 /\ Len(h1[node].keys) = 0)
             THEN Raise([m2 EXCEPT !.heap = h1], "IndexError")
             ELSE Bind(split_top(h1, node, Len(m.heap) + 1, m2.obj), LAMBDA h2 :
                  [m2 EXCEPT !.heap = split_left(h2, node, Len(m.heap) + 1, m2.obj,
                                                 Len(m2.heap[node].keys) \div 2),
                             !.p = m2.obj, !.l = node, !.r = Len(m.heap) + 1,
                             !.splits = @ + 1])))

\* what follows __split_node in the loop of BPlusTree.insert, up to the three
\* put_page calls
\* A split that is not counted: the tree forgets `self.split_count += 1`.
split_uncounted(m) == m

\* main.py:159, `self.split_count += 1`.
split_counted(m) == [m EXCEPT !.split_count = @ + 1]

split_publish(m1, node_is_leaf) ==
    Bind(split_counted(m1), LAMBDA m2 :
    Bind(IF m2.heap[m2.p].page_parent = None \/ m2.heap[m2.p].page_parent = 0
         THEN [m2 EXCEPT !.root_page_id = m2.heap[m2.p].page_offset, !.root_node = m2.p]
         ELSE m2, LAMBDA m3 :
    Bind(IF ~node_is_leaf
         THEN [m3 EXCEPT !.heap[m3.p].is_leaf = FALSE,
                         !.heap[m3.l].is_leaf = FALSE,
                         !.heap[m3.r].is_leaf = FALSE]
         ELSE m3, LAMBDA m4 :
    Try(put_page(m4, m4.heap[m4.p].page_offset, m4.p), LAMBDA m5 :
    Try(put_page(m5, m5.heap[m5.l].page_offset, m5.l), LAMBDA m6 :
        put_page(m6, m6.heap[m6.r].page_offset, m6.r))))))

\* the loop of BPlusTree.insert that splits the leaf and then its ancestors
RECURSIVE split_loop(_, _, _, _)
split_loop(m, node, node_is_leaf, fuel) ==
    Try(split_node(m, node), LAMBDA m1 :
    Try(split_publish(m1, node_is_leaf), LAMBDA m7 :
        IF SerializeRaises(m7.heap[m7.p]) THEN Raise(m7, "IndexError")
        ELSE IF NodeSize(m7.heap[m7.p]) <= page_max_size THEN [m7 EXCEPT !.ret = NoneV]
        ELSE IF fuel = 0 THEN Raise(m7, "Hang")
        ELSE split_loop(m7, m7.p, FALSE, fuel - 1)))

\* the descent of BPlusTree.insert: an exception raised inside the try block is
\* printed and the loop runs again on the same node; when that changes nothing
\* the loop never ends
RECURSIVE insert_descend(_, _, _, _)
insert_descend(m, node, key, fuel) ==
    LET nd == m.heap[node]
        i == find_last_leq(nd.keys, key)
    IN IF nd.is_leaf THEN [m EXCEPT !.obj = node]
       ELSE Bind(IF ~PyInRange(nd.values, i) THEN Raise(m, "IndexError")
                 ELSE get_page(m, PyAt(nd.values, i)),
                 LAMBDA m1 :
                 IF Ok(m1)
                 THEN (IF fuel = 0 THEN Raise(m1, "Hang")
                       ELSE insert_descend(m1, m1.obj, key, fuel - 1))
                 ELSE IF fuel = 0 \/ [m1 EXCEPT !.exc = "", !.page_count = m.page_count] = m
                 THEN Raise(m1, "Hang")
                 ELSE insert_descend([m1 EXCEPT !.exc = ""], node, key, fuel - 1))

FirstIndex(keys, key) == CHOOSE i \in 1..Len(keys) : keys[i] = key /\ \A j \in 1..(i - 1) : keys[j] # key

\* the leaf nd with (key, value) written into it: overwritten when the key is
\* there, inserted after the last key <= key when it is not
leaf_with(nd, key, value) ==
    IF \E i \in 1..Len(nd.keys) : nd.keys[i] = key
    THEN [nd EXCEPT !.values[FirstIndex(nd.keys, key)] = StrV(value),
                    !.is_changed = TRUE]
    ELSE [nd EXCEPT !.keys = PyInsert(@, find_last_leq(nd.keys, key) + 1, key),
                    !.values = PyInsert(@, find_last_leq(nd.keys, key) + 1, StrV(value)),
                    !.is_changed = TRUE]

\* BPlusTree.insert (self.root_node is never None: create always sets it)
insert(m, key, value) ==
    Try(insert_descend(m, m.root_node, key, MaxSteps), LAMBDA m1 :
        LET node == m1.obj
            nd == m1.heap[node]
        IN IF (\E i \in 1..Len(nd.keys) : nd.keys[i] = key)
              /\ FirstIndex(nd.keys, key) > Len(nd.values)
           THEN Raise(m1, "IndexError")
           ELSE Try(put_page(SetNode(m1, node, leaf_with(nd, key, value)),
                             nd.page_offset, node),
                    LAMBDA m2 :
                    IF SerializeRaises(m2.heap[node]) THEN Raise(m2, "IndexError")
                    ELSE IF NodeSize(m2.heap[node]) <= page_max_size
                    THEN [m2 EXCEPT !.ret = TrueV]
                    ELSE split_loop(m2, node, TRUE, MaxSteps)))

\* BPlusTree.__adjust_root
adjust_root(m, old_root_node) ==
    LET nd == m.heap[old_root_node]
    IN IF nd.is_leaf /\ Len(nd.keys) = 1
       THEN IF nd.values = <<>> THEN Raise(m, "IndexError")
            ELSE Try(get_page(m, nd.values[1]), LAMBDA m1 :
                     LET child == m1.heap[m1.obj]
                     IN [m1 EXCEPT !.heap[old_root_node] =
                                      [@ EXCEPT !.page_parent = None,
                                                !.page_prev = child.page_prev,
                                                !.page_next = child.page_next,
                                                !.keys = child.keys,
                                                !.values = child.values,
                                                !.is_leaf = child.is_leaf,
                                                !.is_changed = TRUE],
                                   !.ret = FalseV])
       ELSE IF nd.is_leaf /\ Len(nd.keys) = 0 THEN [m EXCEPT !.ret = TrueV]
       ELSE [m EXCEPT !.ret = FalseV]

\* __redistribute when node is taken to be on the right of brother: the last
\* record of brother moves to the head of node
redistribute_from_left(m1, node, brother, p_node, index) ==
    LET h == m1.heap
    IN IF h[brother].keys = <<>> THEN Raise(m1, "IndexError")
       ELSE IF h[brother].values = <<>>
       THEN Raise([m1 EXCEPT !.heap[brother].keys = PyRemove(@, -1),
                             !.heap[node].keys = <<PyAt(h[brother].keys, -1)>> \o @],
                  "IndexError")
       ELSE Bind([h EXCEPT ![brother].keys = PyRemove(@, -1),
                           ![brother].values = PyRemove(@, -1),
                           ![node].keys = <<PyAt(h[brother].keys, -1)>> \o @,
                           ![node].values = <<PyAt(h[brother].values, -1)>> \o @],
                 LAMBDA h2 :
                 [m1 EXCEPT !.heap = [h2 EXCEPT ![p_node].keys =
                                         PySet(@, index + 1, h2[node].keys[1])],
                            !.obj = p_node, !.moves = @ + 1])

\* __redistribute when node is taken to be on the left of brother: the first
\* record of brother moves to the tail of node
redistribute_from_right(m1, node, brother, p_node, index) ==
    LET h == m1.heap
    IN IF h[brother].keys = <<>> THEN Raise(m1, "IndexError")
       ELSE IF h[brother].values = <<>>
       THEN Raise([m1 EXCEPT !.heap[brother].keys = Tail(@),
                             !.heap[node].keys = Append(@, h[brother].keys[1])],
                  "IndexError")
       ELSE Bind([h EXCEPT ![node].keys = Append(@, h[brother].keys[1]),
                           ![brother].keys = Tail(@)],
                 LAMBDA h1 :
            Bind([h1 EXCEPT ![node].values = Append(@, h1[brother].values[1]),
                            ![brother].values = Tail(@)],
                 LAMBDA h2 :
                 IF ~PyInRange(h2[p_node].keys, index) \/ h2[brother].keys = <<>>
                 THEN Raise([m1 EXCEPT !.heap = h2], "IndexError")
                 ELSE [m1 EXCEPT !.heap = [h2 EXCEPT ![p_node].keys =
                                              PySet(@, index, h2[brother].keys[1])],
                                 !.obj = p_node, !.moves = @ + 1]))

\* BPlusTree.__redistribute
redistribute(m, node, brother) ==
    Try(get_page(m, IntV(m.heap[node].page_parent)), LAMBDA m1 :
        LET p_node == m1.obj
            h == m1.heap
            index == find_last_leq(IntsOf(h[p_node].values), h[brother].page_offset)
        IN IF ~AllInts(h[p_node].values) THEN Raise(m1, "TypeError")
           ELSE IF ~PyInRange(h[p_node].keys, index + 1) \/ h[node].keys = <<>>
           THEN Raise(m1, "IndexError")
           ELSE IF PyAt(h[p_node].keys, index + 1) = h[node].keys[1]
           THEN redistribute_from_left(m1, node, brother, p_node, index)
           ELSE IF ~PyInRange(h[p_node].keys, index - 1) THEN Raise(m1, "IndexError")
           ELSE IF PyAt(h[p_node].keys, index - 1) = h[node].keys[1]
           THEN redistribute_from_right(m1, node, brother, p_node, index)
           ELSE [m1 EXCEPT !.obj = p_node])

\* the asserts and the two put_page calls that end __redistribute
redistribute_end(m, node, brother) ==
    Try(redistribute(m, node, brother), LAMBDA m1 :
        IF SerializeRaises(m1.heap[node]) \/ SerializeRaises(m1.heap[brother])
        THEN Raise(m1, "IndexError")
        ELSE IF NodeSize(m1.heap[node]) > page_max_size
                \/ NodeSize(m1.heap[brother]) > page_max_size
                \/ Len(m1.heap[node].keys) < 1
        THEN Raise(m1, "AssertionError")
        ELSE Try(put_page(m1, m1.heap[node].page_offset, node), LAMBDA m2 :
             Try(put_page(m2, m2.heap[brother].page_offset, brother), LAMBDA m3 :
                 [m3 EXCEPT !.ret = TrueV])))

\* __coalesce from "l_node.keys.extend" to the two pops on the parent: the
\* records of r_node are appended to l_node and r_node's entry leaves p_node
coalesce_merge(m1, l_node, r_node, p_node, r_index) ==
    Bind([m1.heap EXCEPT ![l_node].keys = @ \o m1.heap[r_node].keys], LAMBDA h1 :
    Bind([h1 EXCEPT ![l_node].values = @ \o h1[r_node].values], LAMBDA h2 :
    Bind([h2 EXCEPT ![l_node].page_next = h2[r_node].page_next], LAMBDA h3 :
         IF ~PyInRange(h3[p_node].keys, r_index)
         THEN Raise([m1 EXCEPT !.heap = h3], "IndexError")
         ELSE IF ~PyInRange(h3[p_node].values, r_index)
         THEN Raise([m1 EXCEPT !.heap = [h3 EXCEPT ![p_node].keys = PyRemove(@, r_index)]],
                    "IndexError")
         ELSE [m1 EXCEPT !.heap = [h3 EXCEPT ![p_node].keys = PyRemove(@, r_index),
                                             ![p_node].values = PyRemove(@, r_index)]])))

\* the end of __coalesce_or_redistribute once the brother is merged or
\* redistributed: both nodes are marked dirty and put back
coalesce_end(m2, node, bro, is_merge) ==
    Try(put_page([m2 EXCEPT !.heap[node].is_changed = TRUE,
                            !.heap[bro].is_changed = TRUE],
                 m2.heap[node].page_offset, node), LAMBDA m4 :
    Try(put_page(m4, m4.heap[bro].page_offset, bro), LAMBDA m5 :
        [m5 EXCEPT !.ret = IF is_merge THEN TrueV ELSE FalseV]))

\* the place of page id in the child list of a parent (0: not there)
PositionIn(values, id) ==
    IF \E i \in 1..Len(values) : values[i] = IntV(id)
    THEN CHOOSE i \in 1..Len(values) :
            values[i] = IntV(id) /\ \A j \in 1..(i - 1) : values[j] # IntV(id)
    ELSE 0

\* what a call of __coalesce did, given the heap before its first assignment
\* (h) and after its last one (h2): left and right are the two nodes in the
\* order of the parent's child list before the call, kept is the node that
\* received the records, removed the child whose entry left the parent
Coalesced(h, h2, l_node, r_node, p_node) ==
    Bind(IF PositionIn(h[p_node].values, h[l_node].page_offset)
              <= PositionIn(h[p_node].values, h[r_node].page_offset)
         THEN <<l_node, r_node>> ELSE <<r_node, l_node>>, LAMBDA lr :
        [left |-> h[lr[1]].page_offset, right |-> h[lr[2]].page_offset,
         left_keys |-> h[lr[1]].keys, right_keys |-> h[lr[2]].keys,
         left_values |-> h[lr[1]].values, right_values |-> h[lr[2]].values,
         kept |-> h2[l_node].page_offset,
         kept_keys |-> h2[l_node].keys, kept_values |-> h2[l_node].values,
         removed |-> IF PyInRange(h[p_node].values,
                                  find_last_leq(IntsOf(h[p_node].values),
                                                h[r_node].page_offset))
                     THEN PyAt(h[p_node].values,
                               find_last_leq(IntsOf(h[p_node].values),
                                             h[r_node].page_offset)).n
                     \* the parent is one of the two nodes: its entries are
                     \* those it received
                     ELSE None])

\* BPlusTree.__coalesce(node, brother) up to its last line, the call of
\* __coalesce_or_redistribute(p_node): p is p_node, l and r the two arguments
coalesce(m, node, brother) ==
    LET l_node == IF m.heap[node].page_next = m.heap[brother].page_offset
                  THEN brother ELSE node
        r_node == IF m.heap[node].page_next = m.heap[brother].page_offset
                  THEN node ELSE brother
    IN IF m.heap[l_node].page_parent # m.heap[r_node].page_parent
       THEN Raise(m, "AssertionError")
       ELSE
       Try(get_page(m, IntV(m.heap[l_node].page_parent)), LAMBDA m1 :
           LET p_node == m1.obj
               h == m1.heap
           IN IF SerializeRaises(h[l_node]) \/ SerializeRaises(h[r_node])
              THEN Raise(m1, "IndexError")
              ELSE IF NodeSize(h[l_node]) + NodeSize(h[r_node]) > page_max_size
              THEN Raise(m1, "AssertionError")
              ELSE IF ~AllInts(h[p_node].values) THEN Raise(m1, "TypeError")
              ELSE
              Try(coalesce_merge(m1, l_node, r_node, p_node,
                                 find_last_leq(IntsOf(h[p_node].values),
                                               h[r_node].page_offset)),
                  LAMBDA m1a :
              Try(put_page([m1a EXCEPT !.merges = @ + 1,
                                       !.co = Coalesced(h, m1a.heap, l_node, r_node, p_node)],
                           m1a.heap[p_node].page_offset, p_node), LAMBDA m2 :
                  [m2 EXCEPT !.merge_count = @ + 1,
                             !.p = p_node, !.l = node, !.r = brother])))

\* the key the parent P (a sequence of one node, or none) holds for child id
RoutingKey(P, id) ==
    IF P = <<>> THEN None
    ELSE IF PositionIn(P[1].values, id) \in 1..Len(P[1].keys)
    THEN P[1].keys[PositionIn(P[1].values, id)]
    ELSE None

\* what a call of __redistribute(node, brother) did, given the machine before
\* (m) and after (m2) it: which side of node the brother is on in the parent's
\* child list, the records of both before and after, the key the parent holds
\* afterwards for the right-hand one of the two, and the sizes of both
Redistributed(m, m2, node, brother) ==
    Bind(Peek(m, m.heap[node].page_parent), LAMBDA P :
        [called |-> TRUE,
         brother_left |-> P # <<>> /\ PositionIn(P[1].values, m.heap[brother].page_offset)
                                      < PositionIn(P[1].values, m.heap[node].page_offset),
         node_keys |-> m.heap[node].keys, node_values |-> m.heap[node].values,
         brother_keys |-> m.heap[brother].keys,
         brother_values |-> m.heap[brother].values,
         node_keys2 |-> m2.heap[node].keys, node_values2 |-> m2.heap[node].values,
         brother_keys2 |-> m2.heap[brother].keys,
         brother_values2 |-> m2.heap[brother].values,
         node_routing |-> RoutingKey(Peek(m2, m2.heap[node].page_parent),
                                     m2.heap[node].page_offset),
         brother_routing |-> RoutingKey(Peek(m2, m2.heap[node].page_parent),
                                        m2.heap[brother].page_offset),
         node_size |-> NodeSize(m2.heap[node]),
         brother_size |-> NodeSize(m2.heap[brother])])

\* one call of BPlusTree.__coalesce_or_redistribute(node): to its end (p is 0)
\* when it does not merge, and up to the call inside __coalesce when it does;
\* bro is the page of the brother it settled on (None: brother is None)
coalesce_or_redistribute_call(m0, node) ==
    Bind([m0 EXCEPT !.p = 0, !.bro = None], LAMBDA m :
    LET nd == m.heap[node]
    IN IF nd.page_parent = None THEN adjust_root(m, node)
       ELSE IF nd.page_prev = None /\ nd.page_next = None THEN [m EXCEPT !.ret = FalseV]
       ELSE IF nd.page_prev = None THEN Raise(m, "TypeError")
       ELSE
       \* page_prev is not None: the first branch is taken, the elif never
       Try(get_page(m, IntV(nd.page_prev)), LAMBDA m1 :
           LET bro == m1.obj
           IN IF m1.heap[node].page_parent # m1.heap[bro].page_parent
              THEN [m1 EXCEPT !.ret = FalseV]
              ELSE IF SerializeRaises(m1.heap[node]) \/ SerializeRaises(m1.heap[bro])
              THEN Raise(m1, "IndexError")
              ELSE IF NodeSize(m1.heap[node]) + NodeSize(m1.heap[bro]) <= page_max_size
              THEN coalesce([m1 EXCEPT !.bro = m1.heap[bro].page_offset], node, bro)
              ELSE Try(redistribute_end([m1 EXCEPT !.bro = m1.heap[bro].page_offset],
                                        node, bro),
                       LAMBDA m2 :
                       coalesce_end([m2 EXCEPT !.rd = Redistributed(m1, m2, node, bro)],
                                    node, bro, FALSE))))

\* the calls that are waiting for their __coalesce to return, innermost first,
\* finish one after the other (pend holds their <<node, brother>>)
RECURSIVE coalesce_return(_, _)
coalesce_return(m, pend) ==
    IF pend = <<>> \/ ~Ok(m) THEN m
    ELSE coalesce_return(coalesce_end(m, pend[1][1], pend[1][2], TRUE), Tail(pend))

\* m is the machine one call of __coalesce_or_redistribute has left: the
\* recursion goes on with p_node for as long as the calls merge
RECURSIVE coalesce_descend(_, _, _)
coalesce_descend(m, pend, fuel) ==
    IF ~Ok(m) THEN m
    ELSE IF m.p = 0 THEN coalesce_return(m, pend)
    ELSE IF fuel = 0 THEN Raise(m, "RecursionError")
    ELSE coalesce_descend(coalesce_or_redistribute_call(m, m.p),
                          << <<m.l, m.r>> >> \o pend, fuel - 1)

\* page id when it names a node with the parent of node, else None
SiblingOf(m, node, id) ==
    IF id = None \/ id <= 0 \/ Peek(m, id) = <<>> THEN None
    ELSE IF Peek(m, id)[1].page_parent = m.heap[node].page_parent THEN id
    ELSE None

\* what the call of __coalesce_or_redistribute(node) that delete makes met:
\* the node, its left and right siblings under the same parent before the
\* call (None: no such sibling), and the brother the call settled on
Siblings(m, node, bro) ==
    [called |-> TRUE, node |-> m.heap[node].page_offset,
     root |-> m.heap[node].page_parent = None,
     left |-> SiblingOf(m, node, m.heap[node].page_prev),
     right |-> SiblingOf(m, node, m.heap[node].page_next),
     used |-> bro]

\* BPlusTree.__coalesce_or_redistribute
coalesce_or_redistribute(m, node) ==
    Bind(coalesce_or_redistribute_call(m, node), LAMBDA m1 :
         coalesce_descend([m1 EXCEPT !.cr = Siblings(m, node, m1.bro)],
                          <<>>, MaxRecursion))

\* the descent of BPlusTree.delete
RECURSIVE delete_descend(_, _, _, _)
delete_descend(m, node, key, fuel) ==
    LET nd == m.heap[node]
        i == find_last_leq(nd.keys, key)
    IN IF nd.is_leaf THEN [m EXCEPT !.obj = node]
       ELSE IF ~PyInRange(nd.values, i) THEN Raise(m, "IndexError")
       ELSE Try(get_page(m, PyAt(nd.values, i)), LAMBDA m1 :
                IF fuel = 0 THEN Raise(m1, "Hang")
                ELSE delete_descend(m1, m1.obj, key, fuel - 1))

\* BPlusTree.delete
delete(m, key) ==
    Try(delete_descend(m, m.root_node, key, MaxSteps), LAMBDA m1 :
        LET node == m1.obj
            nd == m1.heap[node]
            index == find_last_leq(nd.keys, key)
        IN IF ~PyInRange(nd.keys, index) THEN Raise(m1, "IndexError")
           ELSE IF PyAt(nd.keys, index) # key THEN [m1 EXCEPT !.ret = IntV(0)]
           ELSE IF ~PyInRange(nd.values, index)
           THEN Raise([m1 EXCEPT !.heap[node].keys = PyRemove(@, index)], "IndexError")
           ELSE
           Bind([m1 EXCEPT !.heap[node].keys = PyRemove(@, index),
                           !.heap[node].values = PyRemove(@, index)], LAMBDA m3 :
                IF SerializeRaises(m3.heap[node]) THEN Raise(m3, "IndexError")
                ELSE
                Try(IF NodeSize(m3.heap[node]) < default_merge_size
                    THEN coalesce_or_redistribute(m3, node)
                    ELSE m3,
                    LAMBDA m4 :
                Try(put_page([m4 EXCEPT !.heap[node].is_changed = TRUE],
                             m4.heap[node].page_offset, node),
                    LAMBDA m6 : [m6 EXCEPT !.ret = IntV(1)]))))

(***************************************************************************)
(* Inputs and bounds of the model.                                         *)
(***************************************************************************)
\* keys are 0..MaxKey
MaxKey == 2
\* operations per run
MaxOps == 5
\* payload lengths in bytes: a record of SmallLen and one of BigLen fit a page
\* together, two of BigLen do not
SmallLen == 10
BigLen == 3000

Keys == 0..MaxKey
Values == {Rep(97, SmallLen), Rep(99, BigLen)}
\* cache capacities tried at create
Capacities == {1, 3}
\* a value that does not fit a page even as the only record of a leaf
OversizeLen == 4100
Oversize == Rep(100, OversizeLen)
OversizeOps == 4
\* a value that shares a page with one of BigLen, though their two leaves
\* together exceed a page
MidLen == 1036
Mid == Rep(101, MidLen)
MidOps == 4

(***************************************************************************)
(* The state.  The first group is the program's; status says whether the   *)
(* tree handle is open, closed, or inside an operation that never returns. *)
(* The second group records the last operation and what the abstract       *)
(* dictionary holds, for stating the properties: before is the snapshot     *)
(* taken when the last insert, get, delete or close began, clean says that *)
(* no operation has raised or hung so far, distinctInserts that every      *)
(* operation so far was an insert of a key not stored yet.                 *)
(***************************************************************************)
VARIABLES heap, cache, file, meta, page_count, capacity,
          root_node, root_page_id, split_count, merge_count, node_count,
          status,
          last, stored, before, clean, distinctInserts, nops

vars == <<heap, cache, file, meta, page_count, capacity,
          root_node, root_page_id, split_count, merge_count, node_count,
          status, last, stored, before, clean, distinctInserts, nops>>

\* BPlusTree.empty_page_count, the list of free page ids: [] when the tree is
\* constructed, written to the metadata as it is; no statement adds to it
empty_page_count == <<>>

\* no call of __coalesce yet
NoCoalesce ==
    [left |-> 0, right |-> 0, left_keys |-> <<>>, right_keys |-> <<>>,
     left_values |-> <<>>, right_values |-> <<>>,
     kept |-> 0, kept_keys |-> <<>>, kept_values |-> <<>>, removed |-> 0]

\* delete has not called __coalesce_or_redistribute
NoSiblings ==
    [called |-> FALSE, node |-> 0, root |-> FALSE, left |-> None, right |-> None,
     used |-> None]

\* delete has not called __redistribute
NoRedistribute ==
    [called |-> FALSE, brother_left |-> FALSE,
     node_keys |-> <<>>, node_values |-> <<>>,
     brother_keys |-> <<>>, brother_values |-> <<>>,
     node_keys2 |-> <<>>, node_values2 |-> <<>>,
     brother_keys2 |-> <<>>, brother_values2 |-> <<>>,
     node_routing |-> None, brother_routing |-> None,
     node_size |-> 0, brother_size |-> 0]

Mach == [heap |-> heap, cache |-> cache, file |-> file, page_count |-> page_count,
         capacity |-> capacity, root_node |-> root_node, root_page_id |-> root_page_id,
         split_count |-> split_count, merge_count |-> merge_count,
         node_count |-> node_count,
         exc |-> "", ret |-> NoneV, obj |-> 0, p |-> 0, l |-> 0, r |-> 0,
         splits |-> 0, merges |-> 0, moves |-> 0, co |-> NoCoalesce,
         bro |-> None, cr |-> NoSiblings, rd |-> NoRedistribute, alloc |-> <<>>,
         drops |-> <<>>, used |-> last.used, evicts |-> <<>>, puts |-> 0,
         raised |-> <<>>]

\* the objects still referenced when an operation has returned: the root and
\* the cached pages; the heap is renumbered in that order
RECURSIVE Dedupe(_, _)
Dedupe(seq, acc) ==
    IF seq = <<>> THEN acc
    ELSE Dedupe(Tail(seq),
                IF \E i \in 1..Len(acc) : acc[i] = seq[1] THEN acc ELSE Append(acc, seq[1]))

Canon(m) ==
    LET order == Dedupe(<<m.root_node>> \o [i \in 1..Len(m.cache) |-> m.cache[i][2]], <<>>)
        new(o) == CHOOSE i \in 1..Len(order) : order[i] = o
    IN [m EXCEPT !.heap = [i \in 1..Len(order) |-> m.heap[order[i]]],
                 !.cache = [i \in 1..Len(m.cache) |-> <<m.cache[i][1], new(m.cache[i][2])>>],
                 !.root_node = new(m.root_node),
                 !.obj = 0, !.p = 0, !.l = 0, !.r = 0]

\* what get(k) returns or raises in machine m, for every key
Outcome(m) == [ret |-> IF Ok(m) THEN m.ret ELSE NoneV, exc |-> m.exc]
View(m) == [k \in Keys |-> Outcome(get(m, k))]

NoVal == << <<0, 1>> >>
Record(op, key, val, m) ==
    [op |-> op, key |-> key, val |-> val, ret |-> IF Ok(m) THEN m.ret ELSE NoneV,
     exc |-> m.exc, splits |-> m.splits, merges |-> m.merges, moves |-> m.moves,
     co |-> m.co, cr |-> m.cr, rd |-> m.rd, alloc |-> m.alloc, drops |-> m.drops,
     used |-> m.used, evicts |-> m.evicts, raised |-> m.raised]

\* the program's variables after an operation that left machine m
Becomes(m) ==
    \E c \in {Canon(m)} :
       /\ heap' = c.heap
       /\ cache' = c.cache
       /\ file' = c.file
       /\ page_count' = c.page_count
       /\ capacity' = c.capacity
       /\ root_node' = c.root_node
       /\ root_page_id' = c.root_page_id
       /\ split_count' = c.split_count
       /\ merge_count' = c.merge_count
       /\ node_count' = c.node_count

\* an operation that loops or recurses without end never gives the handle back
StatusAfter(m) == IF m.exc \in {"Hang", "RecursionError"} THEN "hung" ELSE "open"

Snapshot == [view |-> View(Mach), root_page_id |-> root_page_id, stored |-> stored,
             clean |-> clean, last |-> last,
             split_count |-> split_count, merge_count |-> merge_count,
             node_count |-> node_count]

\* BPlusTree.create on a new file, then BPlusTree.__init__
InitWith(cap) ==
    /\ heap = << NewNode(1, None, TRUE) >>
    /\ cache = <<>>
    /\ file = << serialize(NewNode(1, None, TRUE)) >>
    /\ page_count = 1
    /\ capacity = cap
    /\ root_node = 1
    /\ root_page_id = 1
    /\ split_count = 0
    /\ merge_count = 0
    /\ node_count = 0
    /\ meta = [root_page_id |-> 1, node_count |-> 0, split_count |-> 0, merge_count |-> 0]
    /\ status = "open"
    /\ last = [op |-> "create", key |-> 0, val |-> NoVal, ret |-> NoneV, exc |-> "",
               splits |-> 0, merges |-> 0, moves |-> 0, co |-> NoCoalesce,
               cr |-> NoSiblings, rd |-> NoRedistribute, alloc |-> <<>>,
               drops |-> <<>>, used |-> <<>>, evicts |-> <<>>, raised |-> <<>>]
    /\ stored = [k \in Keys |-> NoVal]
    /\ clean = TRUE
    /\ distinctInserts = TRUE
    /\ before = Snapshot
    /\ nops = 0

Init == \E cap \in Capacities : InitWith(cap)

Insert(k, v) ==
    /\ status = "open" /\ nops < MaxOps
    /\ \E m \in {insert(Mach, k, v)} :
          /\ Becomes(m)
          /\ status' = StatusAfter(m)
          /\ last' = Record("insert", k, v, m)
          /\ stored' = IF Ok(m) THEN [stored EXCEPT ![k] = v] ELSE stored
          /\ clean' = (clean /\ Ok(m))
          /\ distinctInserts' = (distinctInserts /\ Ok(m) /\ stored[k] = NoVal)
    /\ before' = Snapshot
    /\ nops' = nops + 1
    /\ meta' = meta

Get(k) ==
    /\ status = "open" /\ nops < MaxOps
    /\ \E m \in {get(Mach, k)} :
          /\ Becomes(m)
          /\ status' = StatusAfter(m)
          /\ last' = Record("get", k, NoVal, m)
          /\ clean' = (clean /\ Ok(m))
    /\ stored' = stored
    /\ distinctInserts' = FALSE
    /\ before' = Snapshot
    /\ nops' = nops + 1
    /\ meta' = meta

Delete(k) ==
    /\ status = "open" /\ nops < MaxOps
    /\ \E m \in {delete(Mach, k)} :
          /\ Becomes(m)
          /\ status' = StatusAfter(m)
          /\ last' = Record("delete", k, NoVal, m)
          /\ stored' = IF Ok(m) THEN [stored EXCEPT ![k] = NoVal] ELSE stored
          /\ distinctInserts' = FALSE
          /\ clean' = (clean /\ Ok(m))
    /\ before' = Snapshot
    /\ nops' = nops + 1
    /\ meta' = meta

\* BPlusTree.close: Memorymanagement.clear, then write_metadata
Close ==
    /\ status = "open" /\ nops < MaxOps
    /\ \E m \in {clear(Mach)} :
          /\ Becomes(m)
          /\ status' = IF Ok(m) THEN "closed" ELSE "open"
          /\ meta' = IF Ok(m)
                     THEN [root_page_id |-> root_page_id, node_count |-> node_count,
                           split_count |-> split_count, merge_count |-> merge_count]
                     ELSE meta
          /\ last' = [Record("close", 0, NoVal, m) EXCEPT !.ret = IF Ok(m) THEN TrueV ELSE NoneV]
          /\ clean' = (clean /\ Ok(m))
    /\ stored' = stored
    /\ distinctInserts' = FALSE
    /\ before' = Snapshot
    /\ nops' = nops + 1

\* BPlusTree.create on the existing file: a new Memorymanagement, read_metadata,
\* get_page(root_page_id), BPlusTree.__init__.  In a new process Node.page_count
\* starts again from 0.
Open(cap, newProcess) ==
    /\ status = "closed" /\ nops < MaxOps
    /\ \E m \in {get_page([Mach EXCEPT !.heap = <<>>, !.cache = <<>>, !.used = <<>>,
                                         !.capacity = cap,
                                         !.page_count = IF newProcess THEN 0 ELSE page_count],
                            IntV(meta.root_page_id))} :
          IF Ok(m)
          THEN /\ Becomes([m EXCEPT !.root_node = m.obj,
                                    !.root_page_id = meta.root_page_id,
                                    !.node_count = meta.node_count,
                                    !.split_count = meta.split_count,
                                    !.merge_count = meta.merge_count])
               /\ status' = "open"
               /\ last' = Record("open", 0, NoVal, m)
               /\ clean' = clean
          ELSE /\ page_count' = m.page_count
               /\ UNCHANGED <<heap, cache, file, capacity, root_node, root_page_id,
                              split_count, merge_count, node_count, status>>
               /\ last' = Record("open", 0, NoVal, m)
               /\ clean' = FALSE
    /\ UNCHANGED <<meta, stored, before, distinctInserts>>
    /\ nops' = nops + 1

Next ==
    \/ \E k \in Keys, v \in Values : Insert(k, v)
    \/ \E k \in Keys : Get(k)
    \/ \E k \in Keys : Delete(k)
    \/ Close
    \/ \E cap \in Capacities, newProcess \in BOOLEAN : Open(cap, newProcess)

Spec == Init /\ [][Next]_vars

\* the same program when insert is also given the value that fits no page,
\* over runs of at most OversizeOps operations
NextOversize ==
    /\ nops < OversizeOps
    /\ \/ \E k \in Keys : Insert(k, Oversize)
       \/ Next

SpecOversize == Init /\ [][NextOversize]_vars

\* the same program when insert is also given the value of MidLen bytes, over
\* runs of at most MidOps operations
NextMid ==
    /\ nops < MidOps
    /\ \/ \E k \in Keys : Insert(k, Mid)
       \/ Next

SpecMid == Init /\ [][NextMid]_vars

\* BPlusTree.create on a new file with cache capacity cap, as a machine
NewMach(cap) ==
    [heap |-> << NewNode(1, None, TRUE) >>, cache |-> <<>>,
     file |-> << serialize(NewNode(1, None, TRUE)) >>, page_count |-> 1,
     capacity |-> cap, root_node |-> 1, root_page_id |-> 1,
     split_count |-> 0, merge_count |-> 0, node_count |-> 0,
     exc |-> "", ret |-> NoneV, obj |-> 0, p |-> 0, l |-> 0, r |-> 0,
     splits |-> 0, merges |-> 0, moves |-> 0, co |-> NoCoalesce,
     bro |-> None, cr |-> NoSiblings, rd |-> NoRedistribute, alloc |-> <<>>,
     drops |-> <<>>, used |-> <<>>, evicts |-> <<>>, puts |-> 0, raised |-> <<>>]

\* the machine the next operation starts from when an operation left m
Then(m) ==
    [Canon(m) EXCEPT !.exc = "", !.ret = NoneV,
                     !.splits = 0, !.merges = 0, !.moves = 0, !.co = NoCoalesce,
                     !.bro = None, !.cr = NoSiblings, !.rd = NoRedistribute,
                     !.alloc = <<>>, !.drops = <<>>, !.evicts = <<>>, !.puts = 0,
                     !.raised = <<>>]

\* the program after insert(1, Mid), insert(2, Mid) on a new file, and after
\* insert(0, Big) then: a root with two leaves, the 3000-byte record alone in
\* the left one
Big == Rep(99, BigLen)
WarmStored(n) ==
    [k \in Keys |-> IF k = 0 /\ n > 2 THEN Big ELSE IF k \in {1, 2} THEN Mid ELSE NoVal]

InitWarm ==
    \E cap \in Capacities :
    \E m1 \in {Then(insert(NewMach(cap), 1, Mid))} :
    \E m2 \in {insert(m1, 2, Mid)} :
    \E m3 \in {Then(m2)} :
    \E m \in {insert(m3, 0, Big)} :
    \E c \in {Canon(m)} :
       /\ heap = c.heap
       /\ cache = c.cache
       /\ file = c.file
       /\ page_count = c.page_count
       /\ capacity = c.capacity
       /\ root_node = c.root_node
       /\ root_page_id = c.root_page_id
       /\ split_count = c.split_count
       /\ merge_count = c.merge_count
       /\ node_count = c.node_count
       /\ meta = [root_page_id |-> 1, node_count |-> 0, split_count |-> 0, merge_count |-> 0]
       /\ status = "open"
       /\ last = Record("insert", 0, Big, m)
       /\ stored = WarmStored(3)
       /\ clean = TRUE
       /\ distinctInserts = TRUE
       /\ before = [view |-> View(m3), root_page_id |-> m2.root_page_id,
                    stored |-> WarmStored(2), clean |-> TRUE,
                    last |-> Record("insert", 2, Mid, m2),
                    split_count |-> m2.split_count, merge_count |-> m2.merge_count,
                    node_count |-> m2.node_count]
       /\ nops = 0

\* runs of at most WarmOps operations from there
WarmOps == 3
NextWarm ==
    /\ nops < WarmOps
    /\ \/ \E k \in Keys : Insert(k, Mid)
       \/ Next

SpecWarm == InitWarm /\ [][NextWarm]_vars

(***************************************************************************)
(* The tree as the program would see it from the current state: the root   *)
(* object and, below it, every page as get_page delivers it (the cached    *)
(* object, or else the page decoded from the file).                        *)
(***************************************************************************)
\* the deepest tree walked, and the longest leaf chain followed
TreeDepth == 4
ChainLen == 8

\* the node that page id names (the cached object, else the page read from the
\* file), as a sequence of one node, or <<>> when the read raises
PageAt(id) ==
    IF id.t = "i" /\ CacheIndex(cache, id.n) # 0
    THEN << heap[cache[CacheIndex(cache, id.n)][2]] >>
    ELSE Bind(read_from_disk(Mach, id), LAMBDA m :
              IF Ok(m) THEN << m.heap[m.obj] >> ELSE <<>>)

RECURSIVE Subtree(_, _)
Subtree(nd, depth) ==
    {nd} \cup
    IF nd.is_leaf \/ depth = 0 THEN {}
    ELSE UNION { IF PageAt(nd.values[i]) = <<>> THEN {}
                 ELSE Subtree(PageAt(nd.values[i])[1], depth - 1) :
                 i \in 1..Len(nd.values) }

Root == heap[root_node]
TreeNodes == Subtree(Root, TreeDepth)
\* the root is the node the tree handle points at
NonRootNodes == {nd \in TreeNodes : nd.page_offset # Root.page_offset}
Leaves == {nd \in TreeNodes : nd.is_leaf}

\* how many records of the tree's leaves carry key k
RecordsOf(k) ==
    Cardinality({ x \in UNION {{<<nd, i>> : i \in 1..Len(nd.keys)} : nd \in Leaves} :
                  x[1].keys[x[2]] = k })

RECURSIVE LeftmostLeaf(_, _)
LeftmostLeaf(nd, depth) ==
    IF nd.is_leaf \/ depth = 0 \/ nd.values = <<>> \/ PageAt(nd.values[1]) = <<>> THEN nd
    ELSE LeftmostLeaf(PageAt(nd.values[1])[1], depth - 1)

\* the keys met from leaf nd on, following page_next (0 or None ends the chain)
RECURSIVE ChainKeys(_, _)
ChainKeys(nd, len) ==
    nd.keys \o
    IF len = 0 \/ nd.page_next = None \/ nd.page_next = 0
       \/ PageAt(IntV(nd.page_next)) = <<>> THEN <<>>
    ELSE ChainKeys(PageAt(IntV(nd.page_next))[1], len - 1)

LeafChainKeys == ChainKeys(LeftmostLeaf(Root, TreeDepth), ChainLen)

StrictlyAscending(seq) == \A i \in 1..(Len(seq) - 1) : seq[i] < seq[i + 1]

\* what get(k) should deliver when the dictionary holds d
Expected(d) == [k \in Keys |->
                  [ret |-> IF d[k] = NoVal THEN NoneV ELSE StrV(d[k]), exc |-> ""]]
\* the last operation returned and so did every one before it
Completed == clean /\ status = "open"

(***************************************************************************)
(* The properties.                                                         *)
(***************************************************************************)
\* C1: after any sequence of inserts with pairwise distinct keys, in any key
\* order, get(k) returns the value inserted for k, for every inserted key k.
C1_GetAfterDistinctInserts ==
    (distinctInserts /\ status = "open")
    => \A k \in Keys : stored[k] # NoVal => View(Mach)[k] = Expected(stored)[k]

\* C2: an insert of the key that the insert just before it stored leaves
\* get(k) equal to the value of the second insert and exactly one record for k
\* in the leaves of the tree.
C2_NoDuplicateKey ==
    (/\ last.op = "insert" /\ last.exc = "" /\ before.clean
     /\ before.last.op = "insert" /\ before.last.key = last.key)
    => /\ View(Mach)[last.key] = [ret |-> StrV(last.val), exc |-> ""]
       /\ RecordsOf(last.key) = 1

\* C3: delete(k) completes, returns 1 when k was stored before the call and 0
\* when it was not, and after a delete that returned 1 get(k) returns None.
C3_DeleteResult ==
    (last.op = "delete" /\ before.clean)
    => /\ last.exc = ""
       /\ last.ret = IntV(IF before.stored[last.key] # NoVal THEN 1 ELSE 0)
       /\ (last.ret = IntV(1) => View(Mach)[last.key] = [ret |-> NoneV, exc |-> ""])

\* C4: get and delete of a key that is not stored raise nothing: get returns
\* None, delete returns 0, and every get answers as it did before.
C4_AbsentKeyNeverRaises ==
    (last.op \in {"get", "delete"} /\ before.clean /\ before.stored[last.key] = NoVal)
    => /\ last.exc = ""
       /\ last.ret = IF last.op = "get" THEN NoneV ELSE IntV(0)
       /\ View(Mach) = before.view

\* C5: when a delete has removed the last stored key, the root is a leaf
\* without keys and get(k) returns None for every key k.
C5_EmptyAfterDeletingAll ==
    (/\ Completed /\ last.op = "delete" /\ last.ret = IntV(1)
     /\ \A k \in Keys : stored[k] = NoVal)
    => /\ Root.is_leaf /\ Root.keys = <<>>
       /\ View(Mach) = Expected(stored)

\* C6: close followed by reopening the file, with any cache capacity, gives a
\* tree with the root_page_id it had before the close and in which get(k)
\* answers as before the close, for every key k.
C6_ReopenPreserves ==
    (last.op = "open" /\ before.clean)
    => /\ last.exc = ""
       /\ root_page_id = before.root_page_id
       /\ View(Mach) = before.view

\* C7: every insert that completes returns True, whether the record fitted,
\* overwrote a stored key, or made a node split.
C7_InsertReturnsTrue ==
    (last.op = "insert" /\ before.clean /\ last.exc = "") => last.ret = TrueV

\* C8: the keys of every node of the tree are strictly ascending, and so are
\* the keys met along the leaf chain from the leftmost leaf.
C8_KeysAscending ==
    Completed => /\ \A nd \in TreeNodes : StrictlyAscending(nd.keys)
                 /\ StrictlyAscending(LeafChainKeys)

\* C9: after every completed insert or delete, every node of the tree
\* serializes to at most page_max_size bytes.
C9_NodesFitPage ==
    (Completed /\ last.op \in {"insert", "delete"})
    => \A nd \in TreeNodes : NodeSize(nd) <= page_max_size

\* C10: after every completed insert or delete, every node but the root
\* serializes to at least default_merge_size bytes.
C10_NonRootHalfFull ==
    (Completed /\ last.op \in {"insert", "delete"})
    => \A nd \in NonRootNodes : NodeSize(nd) >= default_merge_size

\* C11: an insert of a value that does not fit a page even alone in a leaf
\* fails with InvalidArgument and changes nothing: every get answers as before
\* and no split is counted and no node created.
C11_OversizeRejected ==
    (last.op = "insert" /\ before.clean
     /\ HeaderSize + 4 + BLen(last.val) + 1 > page_max_size)
    => /\ last.exc = "InvalidArgument"
       /\ View(Mach) = before.view
       /\ split_count = before.split_count
       /\ node_count = before.node_count

\* C12: over insert, delete, get, close and reopen, split_count grows by one
\* for every node split the operation made and merge_count by one for every
\* coalesce, and by nothing else (so neither ever decreases, and a
\* redistribute changes neither).
C12_CountersExact ==
    (last.op \in {"insert", "delete", "get", "close", "open"} /\ before.clean)
    => /\ split_count = before.split_count + last.splits
       /\ merge_count = before.merge_count + last.merges

C12_Witness ==
    /\ last.op = "delete" /\ before.clean /\ last.exc = ""
    /\ last.merges > 0
    /\ split_count > 0
    /\ merge_count = before.merge_count + 1

\* C13: a completed delete(k) leaves get(j) as it was for every other key j
\* that get found before the delete, whether or not the delete coalesced or
\* redistributed nodes.
C13_DeleteFrame ==
    (last.op = "delete" /\ before.clean /\ last.exc = "")
    => \A j \in Keys \ {last.key} :
          (before.view[j].exc = "" /\ before.view[j].ret # NoneV)
          => View(Mach)[j] = before.view[j]

\* the leaves under internal node P, each with its position in P
LeafChildren(P) ==
    { <<PageAt(P.values[i])[1], i>> :
        i \in { n \in 1..Len(P.values) :
                  PageAt(P.values[n]) # <<>> /\ PageAt(P.values[n])[1].is_leaf } }

\* C14: every key of the leaf at position i of its parent P lies in
\* [P.keys[i], P.keys[i+1]), or in [P.keys[i], infinity) at the last position;
\* stated for the trees built by inserts of distinct keys alone, which includes
\* the insert of a key below every key of the tree.
C14_LeafKeysInRange ==
    (Completed /\ distinctInserts)
    => \A P \in TreeNodes \ Leaves : \A c \in LeafChildren(P) :
          /\ c[2] <= Len(P.keys)
          /\ \A j \in 1..Len(c[1].keys) :
                /\ c[1].keys[j] >= P.keys[c[2]]
                /\ c[2] < Len(P.keys) => c[1].keys[j] < P.keys[c[2] + 1]

(***************************************************************************)
(* A tree one leaf split away from a split of its root.  DeepLeaves        *)
(* inserts of the keys DeepBase, DeepBase + 1, ... with BigLen-byte values *)
(* into a new tree of capacity 3 split the last leaf every time: leaf i    *)
(* holds the one key DeepBase + i - 1, the root (page 3) holds one entry   *)
(* per leaf, and the cache holds the root and the last two leaves.  The    *)
(* other leaves were written when the cache dropped them; the root never   *)
(* was, its slot is still zeros; the last slot written is not padded.      *)
(***************************************************************************)
DeepLeaves == 519
DeepBase == 10
DeepOps == 2

DeepPage(i) == IF i <= 2 THEN i ELSE i + 1

DeepLeaf(i) ==
    [page_offset |-> DeepPage(i), page_parent |-> 3,
     page_prev |-> IF i = 1 THEN None ELSE DeepPage(i - 1),
     page_next |-> IF i = DeepLeaves THEN None ELSE DeepPage(i + 1),
     keys |-> << DeepBase + i - 1 >>, values |-> << StrV(Rep(99, BigLen)) >>,
     is_leaf |-> TRUE, is_changed |-> TRUE]

DeepRoot ==
    [page_offset |-> 3, page_parent |-> None, page_prev |-> None, page_next |-> None,
     keys |-> [i \in 1..DeepLeaves |-> DeepBase + i - 1],
     values |-> [i \in 1..DeepLeaves |-> IntV(DeepPage(i))],
     is_leaf |-> FALSE, is_changed |-> TRUE]

DeepFile ==
    [p \in 1..DeepPage(DeepLeaves - 2) |->
        IF p = 3 THEN Rep(0, page_max_size)
        ELSE IF p = DeepPage(DeepLeaves - 2)
             THEN serialize(DeepLeaf(DeepLeaves - 2))
        ELSE PadSlot(serialize(DeepLeaf(IF p <= 2 THEN p ELSE p - 1)))]

InitDeep ==
    /\ heap = << DeepRoot, DeepLeaf(DeepLeaves - 1), DeepLeaf(DeepLeaves) >>
    /\ cache = << <<3, 1>>, <<DeepPage(DeepLeaves - 1), 2>>, <<DeepPage(DeepLeaves), 3>> >>
    /\ file = DeepFile
    /\ page_count = DeepPage(DeepLeaves)
    /\ capacity = 3
    /\ root_node = 1
    /\ root_page_id = 3
    /\ split_count = DeepLeaves - 1
    /\ merge_count = 0
    /\ node_count = DeepLeaves
    /\ meta = [root_page_id |-> 1, node_count |-> 0, split_count |-> 0, merge_count |-> 0]
    /\ status = "open"
    /\ last = [op |-> "insert", key |-> DeepBase + DeepLeaves - 1, val |-> Rep(99, BigLen),
               ret |-> NoneV, exc |-> "", splits |-> 1, merges |-> 0, moves |-> 0,
               co |-> NoCoalesce, cr |-> NoSiblings, rd |-> NoRedistribute,
               alloc |-> << [id |-> DeepPage(DeepLeaves), taken |-> FALSE] >>,
               drops |-> << [how |-> "evict", id |-> DeepPage(DeepLeaves - 2),
                             dirty |-> TRUE, saved |-> TRUE] >>,
               used |-> << 3, DeepPage(DeepLeaves - 1), DeepPage(DeepLeaves) >>,
               evicts |-> << [id |-> DeepPage(DeepLeaves - 2), put |-> 3,
                              oldest |-> DeepPage(DeepLeaves - 2)] >>,
               raised |-> <<>>]
    /\ stored = [k \in Keys |-> NoVal]
    /\ clean = TRUE
    /\ distinctInserts = TRUE
    /\ before = Snapshot
    /\ nops = 0

NextDeep == nops < DeepOps /\ Next

SpecDeep == InitDeep /\ [][NextDeep]_vars

\* the nodes that internal node P points at
ChildrenOf(P) ==
    { PageAt(P.values[i])[1] : i \in { n \in 1..Len(P.values) : PageAt(P.values[n]) # <<>> } }

NoParent(nd) == nd.page_parent = None \/ nd.page_parent = 0

\* C15: the root is the only node of the tree without a parent id, and every
\* other node's parent id is the page id of the internal node that points at it.
C15_ParentIds ==
    Completed
    => /\ NoParent(Root)
       /\ \A nd \in NonRootNodes : ~NoParent(nd)
       /\ \A P \in TreeNodes \ Leaves : \A c \in ChildrenOf(P) :
             c.page_parent = P.page_offset

\* a page id that names a neighbour
Linked(id) == id # None /\ id # 0

\* C16: the leaves are doubly linked: the leaf that leaf A names as its next
\* leaf names A as its previous leaf, and the leaf that A names as its
\* previous leaf names A as its next leaf; stated for the trees built by
\* inserts of distinct keys alone, where the only restructuring is the split.
C16_LeavesDoublyLinked ==
    (Completed /\ distinctInserts)
    => \A A \in Leaves :
          /\ Linked(A.page_next)
             => /\ PageAt(IntV(A.page_next)) # <<>>
                /\ PageAt(IntV(A.page_next))[1].page_prev = A.page_offset
          /\ Linked(A.page_prev)
             => /\ PageAt(IntV(A.page_prev)) # <<>>
                /\ PageAt(IntV(A.page_prev))[1].page_next = A.page_offset

\* C17: a coalesce keeps the left one of the two nodes, with the left node's
\* keys and values followed by the right node's, and takes the right node's
\* entry out of the parent.
C17_CoalesceKeepsLeft ==
    (last.op = "delete" /\ before.clean /\ last.exc = "" /\ last.merges > 0)
    => /\ last.co.kept = last.co.left
       /\ last.co.kept_keys = last.co.left_keys \o last.co.right_keys
       /\ last.co.kept_values = last.co.left_values \o last.co.right_values
       /\ last.co.removed = last.co.right

\* C18: for an underfull non-root node coalesce-or-redistribute uses the left
\* sibling when there is one under the same parent, else the right sibling
\* when there is one under the same parent, else it returns without a change
\* to the tree; it never raises.
C18_SiblingChoice ==
    (last.op = "delete" /\ before.clean /\ last.cr.called /\ ~last.cr.root)
    => /\ last.exc = ""
       /\ last.cr.left # None => last.cr.used = last.cr.left
       /\ (last.cr.left = None /\ last.cr.right # None)
             => last.cr.used = last.cr.right
       /\ (last.cr.left = None /\ last.cr.right = None)
             => (last.cr.used = None /\ last.merges = 0 /\ last.moves = 0)

\* C19: a redistribute moves the brother's first record to the tail of node
\* when the brother is on the right, and the brother's last record to the head
\* of node when it is on the left; the parent's key for the right-hand one of
\* the two becomes that node's new smallest key; both nodes end with a
\* serialized size of at least default_merge_size.
C19_Redistribute ==
    (last.op = "delete" /\ before.clean /\ last.exc = "" /\ last.rd.called)
    => /\ last.rd.brother_keys # <<>>
       /\ ~last.rd.brother_left
             => /\ last.rd.node_keys2 = Append(last.rd.node_keys, Head(last.rd.brother_keys))
                /\ last.rd.node_values2
                      = Append(last.rd.node_values, Head(last.rd.brother_values))
                /\ last.rd.brother_keys2 = Tail(last.rd.brother_keys)
                /\ last.rd.brother_values2 = Tail(last.rd.brother_values)
                /\ last.rd.brother_keys2 # <<>>
                /\ last.rd.brother_routing = Head(last.rd.brother_keys2)
       /\ last.rd.brother_left
             => /\ last.rd.node_keys2
                      = << last.rd.brother_keys[Len(last.rd.brother_keys)] >>
                           \o last.rd.node_keys
                /\ last.rd.node_values2
                      = << last.rd.brother_values[Len(last.rd.brother_values)] >>
                           \o last.rd.node_values
                /\ last.rd.brother_keys2
                      = SubSeq(last.rd.brother_keys, 1, Len(last.rd.brother_keys) - 1)
                /\ last.rd.brother_values2
                      = SubSeq(last.rd.brother_values, 1, Len(last.rd.brother_values) - 1)
                /\ last.rd.node_routing = Head(last.rd.node_keys2)
       /\ last.rd.node_size >= default_merge_size
       /\ last.rd.brother_size >= default_merge_size

\* C20: a coalesce never leaves the root an internal node with a single child
\* (the root takes the child's contents over, under the same root page id),
\* so after a completed delete the root is not an internal node with exactly
\* one child.
C20_RootCollapses ==
    (last.op = "delete" /\ before.clean /\ last.exc = "")
    => /\ ~(~Root.is_leaf /\ Len(Root.values) = 1)
       /\ root_page_id = before.root_page_id

\* the page ids in the free list
FreeIds == { empty_page_count[i] : i \in 1..Len(empty_page_count) }

\* the ids of the pages the tree is made of, and of the pages held at all: those
\* and the cached ones
TreeIds == { nd.page_offset : nd \in TreeNodes }
HeldIds == TreeIds \cup { cache[i][1] : i \in 1..Len(cache) }

\* the child pointers of the tree that name page id
PointersTo(id) ==
    UNION { { <<P.page_offset, i>> : i \in { n \in 1..Len(P.values) : P.values[n] = IntV(id) } }
            : P \in TreeNodes \ Leaves }

\* C21: the page a coalesce consumed is in the free list afterwards; every page
\* id held is the root's, or named by exactly one child pointer, or in the free
\* list; node_count is the number of pages in the tree.
C21_FreeList ==
    Completed
    => /\ (last.op = "delete" /\ before.clean /\ last.merges > 0)
             => (IF last.co.kept = last.co.left THEN last.co.right ELSE last.co.left)
                   \in FreeIds
       /\ \A id \in HeldIds :
             \/ id = Root.page_offset
             \/ Cardinality(PointersTo(id)) = 1
             \/ id \in FreeIds
       /\ node_count = Cardinality(TreeIds)

\* C22: a page id given to a node that a split creates (the new right sibling
\* or the new root) is not the id of a page that is in the tree already, nor
\* one given out earlier in the same operation; also for the first split after
\* the file is opened again by a new process.
C22_FreshPageIds ==
    (last.op = "insert" /\ before.clean)
    => /\ \A i \in 1..Len(last.alloc) : ~last.alloc[i].taken
       /\ \A i, j \in 1..Len(last.alloc) : i # j => last.alloc[i].id # last.alloc[j].id

\* C23: after a completed insert or delete every cached node that differs from
\* its page in the file has its dirty flag set.
C23_ChangedNodesAreDirty ==
    (Completed /\ last.op \in {"insert", "delete"})
    => \A i \in 1..Len(cache) :
          ~SameAsDisk(file, heap[cache[i][2]]) => heap[cache[i][2]].is_changed

\* C24: a dirty page that the cache lets go of, by an eviction in put_page or
\* in the flush of close, has its current contents in its slot of the file;
\* after close the cache is empty and every page it held is in the file with
\* its latest contents.
C24_DroppedPagesAreSaved ==
    (before.clean /\ last.exc = "")
    => /\ \A i \in 1..Len(last.drops) : last.drops[i].dirty => last.drops[i].saved
       /\ last.op = "close"
             => /\ cache = <<>>
                /\ \A i \in 1..Len(last.drops) : last.drops[i].saved

\* C25: cache replacement is strict LRU: every page that put_page evicts is
\* the cached page whose last access (a hit of get_page, the load of a miss,
\* or a put_page) is the oldest.
C25_StrictLRU ==
    \A i \in 1..Len(last.evicts) : last.evicts[i].id = last.evicts[i].oldest

\* an eviction from a cache of three pages in which the order of last access
\* is not the order of the page ids
C25_Witness ==
    /\ capacity = 3 /\ Len(cache) = 3
    /\ last.evicts # <<>>
    /\ \E i, j \in 1..3 : i < j /\ last.used[i] > last.used[j]

\* C26: with a capacity of at least 1 the cache never holds more pages than
\* its capacity, and a put of a new page (a miss of get_page included) evicts
\* at most one page.
C26_CacheBounded ==
    capacity >= 1
    => /\ Len(cache) <= capacity
       /\ \A i, j \in 1..Len(last.evicts) :
             i # j => last.evicts[i].put # last.evicts[j].put

\* a full cache after an operation that evicted
C26_Witness == Len(cache) = capacity /\ last.evicts # <<>>

\* C27: an error that the pager raises during insert, get or delete ends the
\* operation and reaches the caller: the operation raises that error, no
\* second call of get_page fails after it (nothing is retried), and the call
\* of get_page that failed has put nothing into the cache.
C27_PagerErrorsSurface ==
    (last.op \in {"insert", "get", "delete"} /\ last.raised # <<>>)
    => /\ last.exc = last.raised[1].exc
       /\ Len(last.raised) = 1
       /\ ~last.raised[1].cached

====
